---------------------------- MODULE Spec2Model ----------------------------
(***************************************************************************)
(* Line reduction, selection remap and ordinal batch selection of the      *)
(* image clipper (src/image_clipper.py, class ImageClipper).               *)
(*                                                                         *)
(* Python lists are sequences; a Python index i (0-based, negative values  *)
(* counting from the end) is kept as the integer the code holds, and a     *)
(* read through it goes through PyInRange / PyGet.                         *)
(*                                                                         *)
(* The specifications share the variables:                                  *)
(*   Spec        the interactive session (image loads, slider changes and  *)
(*               the debounce timer, clicks, listbox, config load/save);   *)
(*   SpecRemap   a session without configuration files, in which every     *)
(*               handler records its name and detect_lines its local       *)
(*               old_selected_y (last_op, old_selected_y);                 *)
(*   SpecBatch   a session that loads configurations and runs batches;     *)
(*   SpecBatchUI SpecBatch over short runs, with sliders moved during them;*)
(*   SpecFrame   clicks, re-detections and Clear Selection, then a batch   *)
(*               run;                                                      *)
(*   SpecFailedLoad  image loads from named files, some of which do not    *)
(*               decode, with slider changes and clicks;                   *)
(*   SpecReduce  the reduction alone, over larger raw inputs;              *)
(*   SpecExtract the filter that turns segments into raw y-values;         *)
(*   SpecClick   a session of image loads, configuration loads and saves,  *)
(*               and clicks, with every handler recorded;                  *)
(*   SpecReload  a session of image loads, configuration loads and         *)
(*               re-detections, with every handler recorded;               *)
(*   SpecDebounce  the slider changes and the callbacks root.after holds;   *)
(*   SpecBatchFair SpecBatch with the loop running to its end.             *)
(***************************************************************************)
EXTENDS Integers, Sequences, FiniteSets

VARIABLES
    cv_image,               \* "None" or "img": the decoded raster
    detected_lines,         \* canonical y-values of the current detection
    selected_lines,         \* 0-based indices into detected_lines, insertion order
    selected_line_numbers,  \* 1-based ranks kept for batch processing
    update_timer,           \* "None", "pending" or "expired": self._update_timer
    last_op,                \* SpecRemap: name of the handler that ran last
    old_selected_y,         \* SpecRemap: <<old_selected_y>> of the detect_lines run
                            \* of the last step, <<>> when it ran no remap
    image_path,             \* SpecFailedLoad: "None" or the path load_image got
    after_queue,            \* SpecDebounce: ids of the callbacks root.after holds
    timer_id,               \* SpecDebounce: <<>> or <<id>>: self._update_timer
    n_changes,              \* SpecDebounce: on_param_change calls so far
    n_bursts,               \* SpecDebounce: those made with no callback pending
    n_detect,               \* SpecDebounce: detect_lines calls made by a callback
    params,                 \* SpecDebounce: the value the sliders hold
    used_params,            \* SpecDebounce: the slider value each callback read
    hough_lines,            \* SpecExtract: the segments <<x1, y1, x2, y2>> found
    horizontal_lines,       \* SpecReduce: raw input of the reduction
    merged_lines,           \* SpecReduce: output of the reduction
    reduce_pc,              \* SpecReduce: "idle", "start", or the reducer that ran
    batch_pc,               \* SpecBatch: "idle", "loop" or "done"
    line_nums,              \* SpecBatch: <<line_num1, line_num2>> of the run
    image_files,            \* SpecBatch: the images of the folder, in order
    batch_i,                \* SpecBatch: number of images processed so far
    counts,                 \* SpecBatch: [success, skip, error] counters
    processed,              \* SpecBatch: the files the loop has iterated over
    start_params,           \* SpecBatch: the slider value the confirmation showed
    read_params,            \* SpecBatch: the slider value the last iteration read
    detected,               \* SpecBatch: canonical lines of the last image
    outcome                 \* SpecBatch: what the last image produced

sessionVars == <<cv_image, detected_lines, selected_lines, selected_line_numbers,
                 update_timer>>
traceVars   == <<last_op, old_selected_y, image_path>>
reduceVars  == <<hough_lines, horizontal_lines, merged_lines, reduce_pc>>
batchVars   == <<batch_pc, line_nums, image_files, batch_i, counts, processed,
                 start_params, read_params,
                 detected, outcome>>
debounceVars == <<after_queue, timer_id, n_changes, n_bursts, n_detect, params,
                  used_params>>
vars        == <<sessionVars, traceVars, debounceVars, reduceVars, batchVars>>

---------------------------------------------------------------------------
(* Bounds of the model *)

\* most raw candidates the extractor returns for the interactive image
MaxLines == 3
\* most raw candidates given to the reduction in SpecReduce
MaxRaw == 4
\* most images in a batch folder
MaxImages == 5
\* most images in a folder in SpecBatchUI
MaxShortRun == 2
\* slider changes in a session
MaxChanges == 4
\* most segments the Hough transform returns in SpecExtract
MaxSegs == 2

\* y-values the extractor reports for interactive images
YVals == {31, 50, 69, 70, 71}
\* y-values a click lands on (image coordinates)
\* endpoint columns and rows of the segments in SpecExtract
SegXs == {0, 40}
SegYs == {11, 12, 15}
\* positions of the slider that is moved
ParamVals == {1, 2}
\* what the extractor finds in the image at those positions, already reduced
DebounceInputs == {<<>>, <<31>>, <<31, 69>>}
ClickYs == YVals \cup {11}
\* y-values given to the reduction in SpecReduce
YRaw == {90, 100, 105, 108, 110, 111, 121, 200}

---------------------------------------------------------------------------
(* Program constants *)

T_merge == 10
T_match == 20
T_click == 20
\* tan(5 degrees) = Tan5 / TanScale
Tan5 == 8749
TanScale == 100000

---------------------------------------------------------------------------
(* Python helpers *)

Abs(x) == IF x < 0 THEN -x ELSE x

Range(s) == {s[k] : k \in 1..Len(s)}

SetMin(S) == CHOOSE x \in S : \A y \in S : x <= y

SetMax(S) == CHOOSE x \in S : \A y \in S : x >= y

\* list[i] raises IndexError unless -len <= i < len
PyInRange(list, i) == -Len(list) <= i /\ i < Len(list)

PyGet(list, i) == IF i >= 0 THEN list[i + 1] ELSE list[Len(list) + i + 1]

\* x in list
PyIn(x, list) == \E k \in 1..Len(list) : list[k] = x

\* list.remove(x): drops the first occurrence
RECURSIVE PyRemove(_, _)
PyRemove(list, x) ==
    IF list = <<>> THEN <<>>
    ELSE IF Head(list) = x THEN Tail(list)
    ELSE <<Head(list)>> \o PyRemove(Tail(list), x)

\* sorted(set(...)) of a set of integers
RECURSIVE SortedSeq(_)
SortedSeq(S) ==
    IF S = {} THEN <<>>
    ELSE <<SetMin(S)>> \o SortedSeq(S \ {SetMin(S)})

\* sorted(list) of a list of integers
RECURSIVE PySorted(_)
PySorted(list) ==
    IF list = <<>> THEN <<>>
    ELSE LET m == SetMin(Range(list))
         IN <<m>> \o PySorted(PyRemove(list, m))

---------------------------------------------------------------------------
(* LineReducer: detect_lines lines 536-541, detect_lines_for_image 607-611 *)

RECURSIVE MergeScanGe(_, _, _)
MergeScanGe(sorted, k, merged) ==
    IF k > Len(sorted) THEN merged
    ELSE LET y == sorted[k]
         IN IF merged = <<>> \/ Abs(y - merged[Len(merged)]) >= T_merge
            THEN MergeScanGe(sorted, k + 1, Append(merged, y))
            ELSE MergeScanGe(sorted, k + 1, merged)

\* mutant of MergeLines: keeps a value that is exactly T_merge above the last kept one
MergeLinesGe(h) == MergeScanGe(SortedSeq(Range(h)), 1, <<>>)

RECURSIVE MergeScanFirst(_, _, _)
MergeScanFirst(sorted, k, merged) ==
    IF k > Len(sorted) THEN merged
    ELSE LET y == sorted[k]
         IN IF merged = <<>> \/ Abs(y - merged[1]) > T_merge
            THEN MergeScanFirst(sorted, k + 1, Append(merged, y))
            ELSE MergeScanFirst(sorted, k + 1, merged)

\* mutant of MergeLines: compares with the first kept value, not the last kept one
MergeLinesFirst(h) == MergeScanFirst(SortedSeq(Range(h)), 1, <<>>)

RECURSIVE MergeScanMean(_, _, _)
MergeScanMean(sorted, k, merged) ==
    IF k > Len(sorted) THEN merged
    ELSE LET y == sorted[k]
         IN IF merged = <<>> \/ Abs(y - merged[Len(merged)]) > T_merge
            THEN MergeScanMean(sorted, k + 1, Append(merged, y))
            ELSE MergeScanMean(sorted, k + 1,
                               [merged EXCEPT ![Len(merged)] = (@ + y) \div 2])

\* mutant of MergeLines: a close value is averaged into the last kept one
MergeLinesMean(h) == MergeScanMean(SortedSeq(Range(h)), 1, <<>>)

\* for y in horizontal_lines: if not merged_lines or abs(y - merged_lines[-1]) > 10
RECURSIVE MergeScan(_, _, _)
MergeScan(sorted, k, merged) ==
    IF k > Len(sorted) THEN merged
    ELSE LET y == sorted[k]
         IN IF merged = <<>> \/ Abs(y - merged[Len(merged)]) > T_merge
            THEN MergeScan(sorted, k + 1, Append(merged, y))
            ELSE MergeScan(sorted, k + 1, merged)

\* mutant of MergeLines: the scan starts at the second sorted value
MergeLinesSkipFirst(h) == MergeScan(SortedSeq(Range(h)), 2, <<>>)

\* detect_lines: horizontal_lines = sorted(set(horizontal_lines)), then the merge loop
MergeLines(h) == MergeScan(SortedSeq(Range(h)), 1, <<>>)

\* detect_lines_for_image: the same two steps, written a second time in the source
MergeLinesForImage(h) == MergeScan(SortedSeq(Range(h)), 1, <<>>)

---------------------------------------------------------------------------
(* SelectionTracker: detect_lines lines 543-562 *)

\* the comprehension raises IndexError on an index below -len
OldSelectedYRaises(lines, sel) ==
    \E k \in 1..Len(sel) : sel[k] < Len(lines) /\ ~PyInRange(lines, sel[k])

\* [self.detected_lines[i] for i in self.selected_lines if i < len(self.detected_lines)]
RECURSIVE OldSelectedY(_, _)
OldSelectedY(lines, sel) ==
    IF sel = <<>> THEN <<>>
    ELSE IF Head(sel) < Len(lines)
         THEN <<PyGet(lines, Head(sel))>> \o OldSelectedY(lines, Tail(sel))
         ELSE OldSelectedY(lines, Tail(sel))

\* the inner loop; best_dist is <<>> for float('inf') and <<d>> otherwise
RECURSIVE ClosestScan(_, _, _, _, _)
ClosestScan(lines, old_y, k, best_idx, best_dist) ==
    IF k > Len(lines) THEN best_idx
    ELSE LET dist == Abs(lines[k] - old_y)
         IN IF (best_dist = <<>> \/ dist < best_dist[1]) /\ dist < T_match
            THEN ClosestScan(lines, old_y, k + 1, k - 1, <<dist>>)
            ELSE ClosestScan(lines, old_y, k + 1, best_idx, best_dist)

RECURSIVE FirstWithin(_, _, _)
FirstWithin(lines, old_y, k) ==
    IF k > Len(lines) THEN -1
    ELSE IF Abs(lines[k] - old_y) < T_match THEN k - 1
    ELSE FirstWithin(lines, old_y, k + 1)

\* mutant of BestIdx: takes the first line within the cutoff, not the nearest
BestIdxFirst(lines, old_y) == FirstWithin(lines, old_y, 1)

RECURSIVE NearestScan(_, _, _, _, _)
NearestScan(lines, old_y, k, best_idx, best_dist) ==
    IF k > Len(lines) THEN best_idx
    ELSE LET dist == Abs(lines[k] - old_y)
         IN IF best_dist = <<>> \/ dist < best_dist[1]
            THEN NearestScan(lines, old_y, k + 1, k - 1, <<dist>>)
            ELSE NearestScan(lines, old_y, k + 1, best_idx, best_dist)

\* mutant of BestIdx: no cutoff, the nearest line always wins
BestIdxNoCutoff(lines, old_y) == NearestScan(lines, old_y, 1, -1, <<>>)

RECURSIVE InclusiveScan(_, _, _, _, _)
InclusiveScan(lines, old_y, k, best_idx, best_dist) ==
    IF k > Len(lines) THEN best_idx
    ELSE LET dist == Abs(lines[k] - old_y)
         IN IF (best_dist = <<>> \/ dist < best_dist[1]) /\ dist <= T_match
            THEN InclusiveScan(lines, old_y, k + 1, k - 1, <<dist>>)
            ELSE InclusiveScan(lines, old_y, k + 1, best_idx, best_dist)

\* mutant of BestIdx: a line at distance exactly T_match is accepted
BestIdxInclusive(lines, old_y) == InclusiveScan(lines, old_y, 1, -1, <<>>)

RECURSIVE LastTieScan(_, _, _, _, _)
LastTieScan(lines, old_y, k, best_idx, best_dist) ==
    IF k > Len(lines) THEN best_idx
    ELSE LET dist == Abs(lines[k] - old_y)
         IN IF (best_dist = <<>> \/ dist <= best_dist[1]) /\ dist < T_match
            THEN LastTieScan(lines, old_y, k + 1, k - 1, <<dist>>)
            ELSE LastTieScan(lines, old_y, k + 1, best_idx, best_dist)

\* mutant of BestIdx: of two equidistant lines the later one wins
BestIdxLastTie(lines, old_y) == LastTieScan(lines, old_y, 1, -1, <<>>)

\* best_idx after the scan of the new lines for one old y-value (-1: none)
BestIdx(lines, old_y) == ClosestScan(lines, old_y, 1, -1, <<>>)

RECURSIVE RemapLoopDup(_, _, _)
RemapLoopDup(lines, old_ys, new_selected) ==
    IF old_ys = <<>> THEN new_selected
    ELSE LET best_idx == BestIdx(lines, Head(old_ys))
         IN RemapLoopDup(lines, Tail(old_ys),
                         IF best_idx >= 0
                         THEN Append(new_selected, best_idx)
                         ELSE new_selected)

\* mutant of Remap: appends without the "not in new_selected" test
RemapDup(lines, old_ys) == RemapLoopDup(lines, old_ys, <<>>)

RECURSIVE RemapLoopFront(_, _, _)
RemapLoopFront(lines, old_ys, new_selected) ==
    IF old_ys = <<>> THEN new_selected
    ELSE LET best_idx == BestIdx(lines, Head(old_ys))
         IN RemapLoopFront(lines, Tail(old_ys),
                           IF best_idx >= 0 /\ ~PyIn(best_idx, new_selected)
                           THEN <<best_idx>> \o new_selected
                           ELSE new_selected)

\* mutant of Remap: inserts at the front, so the insertion order is reversed
RemapFront(lines, old_ys) == RemapLoopFront(lines, old_ys, <<>>)

\* if best_idx >= 0 and best_idx not in new_selected: new_selected.append(best_idx)
RECURSIVE RemapLoop(_, _, _)
RemapLoop(lines, old_ys, new_selected) ==
    IF old_ys = <<>> THEN new_selected
    ELSE LET best_idx == BestIdx(lines, Head(old_ys))
         IN RemapLoop(lines, Tail(old_ys),
                      IF best_idx >= 0 /\ ~PyIn(best_idx, new_selected)
                      THEN Append(new_selected, best_idx)
                      ELSE new_selected)

Remap(lines, old_ys) == RemapLoop(lines, old_ys, <<>>)

---------------------------------------------------------------------------
(* Ordinals and preview *)

\* sorted([idx + 1 for idx in self.selected_lines])
Ordinals(sel) == PySorted([k \in 1..Len(sel) |-> sel[k] + 1])

\* update_preview, lines 742-747: the rows (y1, y2) handed to crop()
PreviewBounds(lines, sel) ==
    LET y1 == PyGet(lines, sel[1])
        y2 == PyGet(lines, sel[2])
    IN IF y1 > y2 THEN <<y2, y1>> ELSE <<y1, y2>>

\* mutant of DetectResult: a failed detection leaves no lines and no selection
DetectResultClears(lines, sel, merged, raises) ==
    IF raises \/ OldSelectedYRaises(lines, sel)
    THEN [ok |-> FALSE, detected_lines |-> <<>>, selected_lines |-> <<>>]
    ELSE [ok |-> TRUE, detected_lines |-> merged,
          selected_lines |-> Remap(merged, OldSelectedY(lines, sel))]

\* the state detect_lines leaves, given merged_lines, the reduction of what the
\* extractor returned, or given that the extraction raised
DetectResult(lines, sel, merged, raises) ==
    IF raises \/ OldSelectedYRaises(lines, sel)
    THEN [ok |-> FALSE, detected_lines |-> lines, selected_lines |-> sel]
    ELSE [ok |-> TRUE, detected_lines |-> merged,
          selected_lines |-> Remap(merged, OldSelectedY(lines, sel))]

\* apply_line_numbers_selection: the new selected_lines
ApplyLineNumbers(lines, sel, nums) ==
    IF Len(nums) = 2 /\ Len(lines) >= SetMax(Range(nums))
    THEN [k \in 1..2 |-> nums[k] - 1]
    ELSE sel

---------------------------------------------------------------------------
(* Inputs *)

\* what the extractor returns for the interactive image: up to MaxLines values,
\* listed in descending order (HoughLinesP promises no order)
RECURSIVE DescSeq(_)
DescSeq(S) ==
    IF S = {} THEN <<>>
    ELSE <<SetMax(S)>> \o DescSeq(S \ {SetMax(S)})

RawInputs == {DescSeq(S) : S \in {T \in SUBSET YVals : Cardinality(T) <= MaxLines}}

\* merged_lines of detect_lines over these inputs
MergedInputs == {MergeLines(raw) : raw \in RawInputs}

\* "selected_line_numbers" values a configuration file holds: ranks in either
\* order, a repeated rank, a rank 0, no entry, three entries
ConfigNumbers == {<<>>, <<1, 2>>, <<2, 1>>, <<2, 2>>, <<0, 1>>, <<1, 2, 2>>}

\* a configuration file: with or without the "selected_line_numbers" key
Configs == {[has_numbers |-> FALSE, numbers |-> <<>>]}
           \cup {[has_numbers |-> TRUE, numbers |-> n] : n \in ConfigNumbers}

---------------------------------------------------------------------------
(* Interactive session *)

\* __init__ with no image_clipper_config.json in the working directory; with one,
\* load_config() leaves the state a LoadConfig step leaves from here
SessionInit ==
    /\ cv_image = "None"
    /\ detected_lines = <<>>
    /\ selected_lines = <<>>
    /\ selected_line_numbers = <<>>
    /\ update_timer = "None"

TraceIdle ==
    /\ last_op = "init"
    /\ old_selected_y = <<>>
    /\ image_path = "None"

ReduceIdle ==
    /\ hough_lines = <<>>
    /\ horizontal_lines = <<>>
    /\ merged_lines = <<>>
    /\ reduce_pc = "idle"

\* what one image of a batch produced: kind is "none", "success", "skipped" or
\* "error"; bounds the rows (y1, y2) handed to crop(); reported the line count named
\* in the skip reason; reads the indices read from detected, in order; image the
\* file the iteration was given
NoOutcome ==
    [kind |-> "none", decodable |-> FALSE, bounds |-> <<>>, reported |-> -1,
     reads |-> <<>>, image |-> [decodable |-> FALSE, raw |-> <<>>]]

BatchIdle ==
    /\ batch_pc = "idle"
    /\ line_nums = <<>>
    /\ image_files = <<>>
    /\ batch_i = 0
    /\ counts = [success |-> 0, skip |-> 0, error |-> 0]
    /\ processed = <<>>
    /\ start_params = 0
    /\ read_params = 0
    /\ detected = <<>>
    /\ outcome = NoOutcome

DebounceIdle ==
    /\ after_queue = {}
    /\ timer_id = <<>>
    /\ n_changes = 0
    /\ n_bursts = 0
    /\ n_detect = 0
    /\ params = 0
    /\ used_params = <<>>

Init == SessionInit /\ TraceIdle /\ DebounceIdle /\ ReduceIdle /\ BatchIdle

\* mutant of LoadImageUndecodable: the lists are emptied before the decode fails
LoadImageUndecodableClears ==
    /\ cv_image' = "None"
    /\ detected_lines' = <<>>
    /\ selected_lines' = <<>>
    /\ UNCHANGED <<selected_line_numbers, update_timer>>

\* load_image, cv2.imread returns None: only image_path and cv_image are written
LoadImageUndecodable ==
    /\ cv_image' = "None"
    /\ UNCHANGED <<detected_lines, selected_lines, selected_line_numbers,
                   update_timer>>

\* mutant of LoadImageDecoded: lines 466-467 are left out, so detect_lines remaps
\* the previous image's Selection onto the new image
LoadImageDecodedRemaps(merged, raises) ==
    LET d == DetectResult(detected_lines, selected_lines, merged, raises)
    IN /\ cv_image' = "img"
       /\ detected_lines' = d.detected_lines
       /\ selected_lines' = ApplyLineNumbers(d.detected_lines, d.selected_lines,
                                             selected_line_numbers)
       /\ UNCHANGED <<selected_line_numbers, update_timer>>

\* load_image of a decodable file: clear, detect_lines, apply_line_numbers_selection
LoadImageDecoded(merged, raises) ==
    LET d == DetectResult(<<>>, <<>>, merged, raises)
    IN /\ cv_image' = "img"
       /\ detected_lines' = d.detected_lines
       /\ selected_lines' = ApplyLineNumbers(d.detected_lines, d.selected_lines,
                                             selected_line_numbers)
       /\ UNCHANGED <<selected_line_numbers, update_timer>>

LoadImage ==
    \/ LoadImageUndecodable
    \/ \E merged \in MergedInputs : LoadImageDecoded(merged, FALSE)
    \/ LoadImageDecoded(<<>>, TRUE)

\* on_param_change: cancel the pending timer, schedule detect_lines in 100 ms
OnParamChange ==
    /\ cv_image # "None"
    /\ update_timer' = "pending"
    /\ UNCHANGED <<cv_image, detected_lines, selected_lines, selected_line_numbers>>

\* whether a detect_lines call in the current state gets as far as the remap
DetectRuns(raises) ==
    /\ cv_image # "None"
    /\ ~raises
    /\ ~OldSelectedYRaises(detected_lines, selected_lines)

\* the timer callback: detect_lines
DetectLines(merged, raises) ==
    /\ update_timer = "pending"
    /\ update_timer' = "expired"
    /\ IF cv_image = "None"
       THEN UNCHANGED <<detected_lines, selected_lines>>
       ELSE LET d == DetectResult(detected_lines, selected_lines, merged, raises)
            IN /\ detected_lines' = d.detected_lines
               /\ selected_lines' = d.selected_lines
    /\ UNCHANGED <<cv_image, selected_line_numbers>>

TimerFires ==
    \/ \E merged \in MergedInputs : DetectLines(merged, FALSE)
    \/ DetectLines(<<>>, TRUE)

\* on_canvas_click: the loop that finds the closest line; <<closest_idx, min_dist>>
RECURSIVE ClickScan(_, _, _, _, _)
ClickScan(lines, img_y, k, closest_idx, min_dist) ==
    IF k > Len(lines) THEN <<closest_idx, min_dist>>
    ELSE LET dist == Abs(lines[k] - img_y)
         IN IF min_dist = <<>> \/ dist < min_dist[1]
            THEN ClickScan(lines, img_y, k + 1, k - 1, <<dist>>)
            ELSE ClickScan(lines, img_y, k + 1, closest_idx, min_dist)

\* mutant of ClickToggle: appends without evicting the oldest selection
ClickToggleNoEvict(sel, closest_idx) ==
    IF PyIn(closest_idx, sel) THEN PyRemove(sel, closest_idx)
    ELSE Append(sel, closest_idx)

\* the toggle of lines 693-698
ClickToggle(sel, closest_idx) ==
    IF PyIn(closest_idx, sel) THEN PyRemove(sel, closest_idx)
    ELSE IF Len(sel) >= 2 THEN Append(Tail(sel), closest_idx)
    ELSE Append(sel, closest_idx)

OnCanvasClick(img_y) ==
    /\ detected_lines # <<>>
    /\ LET c == ClickScan(detected_lines, img_y, 1, -1, <<>>)
           closest_idx == c[1]
           min_dist == c[2]
       IN /\ min_dist # <<>> /\ min_dist[1] < T_click /\ closest_idx >= 0
          /\ LET sel == ClickToggle(selected_lines, closest_idx)
             IN /\ selected_lines' = sel
                /\ selected_line_numbers' =
                       IF Len(sel) = 2 THEN Ordinals(sel) ELSE selected_line_numbers
    /\ UNCHANGED <<cv_image, detected_lines, update_timer>>

CanvasClick == \E img_y \in ClickYs : OnCanvasClick(img_y)

\* use_selected_lines with two listbox rows a < b selected
UseSelectedLines(a, b) ==
    /\ selected_lines' = <<a, b>>
    /\ selected_line_numbers' = Ordinals(<<a, b>>)
    /\ UNCHANGED <<cv_image, detected_lines, update_timer>>

\* use_selected_lines with another number of rows selected: a warning, no change
UseSelectedLinesWarns == UNCHANGED sessionVars

UseSelected ==
    \/ \E a, b \in 0..(Len(detected_lines) - 1) : a < b /\ UseSelectedLines(a, b)
    \/ UseSelectedLinesWarns

\* mutant of ClearSelection: the recorded ranks are cleared with the Selection
ClearSelectionAndRanks ==
    /\ selected_lines' = <<>>
    /\ selected_line_numbers' = <<>>
    /\ UNCHANGED <<cv_image, detected_lines, update_timer>>

\* clear_selection
ClearSelection ==
    /\ selected_lines' = <<>>
    /\ UNCHANGED <<cv_image, detected_lines, selected_line_numbers, update_timer>>

\* mutant of SaveConfig: the ranks are rewritten whatever is selected
SaveConfigAlways ==
    /\ selected_line_numbers' = Ordinals(selected_lines)
    /\ UNCHANGED <<cv_image, detected_lines, selected_lines, update_timer>>

\* save_config: a warning unless 2 lines are selected, else the ranks are rewritten
SaveConfig ==
    /\ IF Len(selected_lines) # 2
       THEN UNCHANGED selected_line_numbers
       ELSE selected_line_numbers' = Ordinals(selected_lines)
    /\ UNCHANGED <<cv_image, detected_lines, selected_lines, update_timer>>

\* set_config, lines 358-360
SetConfig(config, nums) == IF config.has_numbers THEN config.numbers ELSE nums

\* load_config_dialog: set_config, then detect_lines and
\* apply_line_numbers_selection when an image is loaded
LoadConfigDialog(config, merged, raises) ==
    LET nums == SetConfig(config, selected_line_numbers)
    IN /\ selected_line_numbers' = nums
       /\ IF cv_image = "None"
          THEN UNCHANGED <<detected_lines, selected_lines>>
          ELSE LET d == DetectResult(detected_lines, selected_lines, merged, raises)
               IN /\ detected_lines' = d.detected_lines
                  /\ selected_lines' = ApplyLineNumbers(d.detected_lines,
                                                        d.selected_lines, nums)
       /\ UNCHANGED <<cv_image, update_timer>>

LoadConfig ==
    \E config \in Configs :
        \/ \E merged \in MergedInputs : LoadConfigDialog(config, merged, FALSE)
        \/ LoadConfigDialog(config, <<>>, TRUE)

Untraced == UNCHANGED <<traceVars, debounceVars, reduceVars, batchVars>>

Next ==
    \/ LoadImage /\ Untraced
    \/ OnParamChange /\ Untraced
    \/ TimerFires /\ Untraced
    \/ CanvasClick /\ Untraced
    \/ UseSelected /\ Untraced
    \/ ClearSelection /\ Untraced
    \/ SaveConfig /\ Untraced
    \/ LoadConfig /\ Untraced

Spec == Init /\ [][Next]_vars

---------------------------------------------------------------------------
(* The session without configuration files, with its handlers recorded *)

Trace(op, old_y) ==
    /\ last_op' = op
    /\ old_selected_y' = old_y
    /\ UNCHANGED <<image_path, debounceVars, reduceVars, batchVars>>

InitRemap == Init

TimerFiresTraced ==
    \/ /\ \E merged \in MergedInputs : DetectLines(merged, FALSE)
       /\ IF DetectRuns(FALSE)
          THEN Trace("detect_lines",
                     <<OldSelectedY(detected_lines, selected_lines)>>)
          ELSE Trace("detect_lines_failed", <<>>)
    \/ /\ DetectLines(<<>>, TRUE)
       /\ Trace("detect_lines_failed", <<>>)

NextRemap ==
    \/ LoadImage /\ Trace("load_image", <<>>)
    \/ OnParamChange /\ Trace("on_param_change", <<>>)
    \/ TimerFiresTraced
    \/ CanvasClick /\ Trace("on_canvas_click", <<>>)
    \/ UseSelected /\ Trace("use_selected_lines", <<>>)
    \/ ClearSelection /\ Trace("clear_selection", <<>>)

SpecRemap == InitRemap /\ [][NextRemap]_vars

---------------------------------------------------------------------------
(* Loads of named files, some of which do not decode *)

\* the files the user opens
Paths == {"a.png", "b.png"}

\* load_image(path): self.image_path = path comes first, at line 456
TraceLoad(path) ==
    /\ last_op' = "load_image"
    /\ old_selected_y' = <<>>
    /\ image_path' = path
    /\ UNCHANGED <<debounceVars, reduceVars, batchVars>>

NextFailedLoad ==
    \/ \E path \in Paths : LoadImage /\ TraceLoad(path)
    \/ OnParamChange /\ Trace("on_param_change", <<>>)
    \/ TimerFiresTraced
    \/ CanvasClick /\ Trace("on_canvas_click", <<>>)

SpecFailedLoad == Init /\ [][NextFailedLoad]_vars

---------------------------------------------------------------------------
(* Clicks in a session that loads images and configuration files, recorded *)

NextClick ==
    \/ LoadImage /\ Trace("load_image", <<>>)
    \/ LoadConfig /\ Trace("load_config_dialog", <<>>)
    \/ CanvasClick /\ Trace("on_canvas_click", <<>>)
    \/ ClearSelection /\ Trace("clear_selection", <<>>)
    \/ SaveConfig /\ Trace("save_config", <<>>)

SpecClick == Init /\ [][NextClick]_vars

---------------------------------------------------------------------------
(* Re-detections in a session that loads configuration files, recorded *)

NextReload ==
    \/ LoadImage /\ Trace("load_image", <<>>)
    \/ LoadConfig /\ Trace("load_config_dialog", <<>>)
    \/ OnParamChange /\ Trace("on_param_change", <<>>)
    \/ TimerFiresTraced

SpecReload == Init /\ [][NextReload]_vars

---------------------------------------------------------------------------
(* Debounce: on_param_change lines 484-494 and the callback it schedules *)

\* mutant of AfterCancel: the callback scheduled before stays scheduled
AfterCancelNone(queue, id) == queue

\* lines 490-491: if self._update_timer is not None: self.root.after_cancel(...);
\* cancelling an id that has fired changes nothing
AfterCancel(queue, id) == IF id = <<>> THEN queue ELSE queue \ {id[1]}

\* the slider is moved to v: Tk writes the variable and calls on_param_change
DebounceParamChange(v) ==
    /\ n_changes < MaxChanges
    /\ params' = v
    /\ n_changes' = n_changes + 1
    /\ IF cv_image = "None"
       THEN UNCHANGED <<sessionVars, after_queue, timer_id, n_bursts>>
       ELSE /\ OnParamChange
            /\ after_queue' = AfterCancel(after_queue, timer_id) \cup {n_changes + 1}
            /\ timer_id' = <<n_changes + 1>>
            /\ n_bursts' = IF after_queue = {} THEN n_bursts + 1 ELSE n_bursts
    /\ UNCHANGED <<n_detect, used_params, traceVars, reduceVars, batchVars>>

\* 100 ms have passed since callback id was scheduled: Tk calls detect_lines
DebounceTimerFires(id) ==
    /\ id \in after_queue
    /\ after_queue' = after_queue \ {id}
    /\ n_detect' = n_detect + 1
    /\ used_params' = Append(used_params, params)
    /\ \/ \E merged \in DebounceInputs : DetectLines(merged, FALSE)
       \/ DetectLines(<<>>, TRUE)
    /\ UNCHANGED <<timer_id, n_changes, n_bursts, params, traceVars, reduceVars,
                   batchVars>>

DebounceLoadImage ==
    /\ \/ LoadImageUndecodable
       \/ \E merged \in DebounceInputs : LoadImageDecoded(merged, FALSE)
    /\ UNCHANGED <<traceVars, debounceVars, reduceVars, batchVars>>

NextDebounce ==
    \/ DebounceLoadImage
    \/ \E v \in ParamVals : DebounceParamChange(v)
    \/ \E id \in after_queue : DebounceTimerFires(id)

SpecDebounce ==
    Init /\ [][NextDebounce]_vars /\ WF_vars(\E id \in after_queue : DebounceTimerFires(id))

---------------------------------------------------------------------------
(* OrdinalBatchSelector: batch_process lines 890-1024 *)

\* the files of a batch folder: unreadable, or what the extractor returns for them
BatchImages ==
    {[decodable |-> FALSE, raw |-> <<>>]}
    \cup {[decodable |-> TRUE, raw |-> r] :
             r \in {<<>>, <<90>>, <<90, 10>>, <<95, 10, 90>>, <<260, 40, 120>>}}

\* "selected_line_numbers" values the configuration files of a batch session hold
BatchConfigs ==
    {[has_numbers |-> TRUE, numbers |-> n] :
         n \in {<<>>, <<1, 2>>, <<1, 3>>, <<3, 1>>, <<2, 2>>, <<0, 1>>, <<0, 0>>}}

Max2(a, b) == IF a >= b THEN a ELSE b

\* mutant of BatchBounds: the rows in rank order
BatchBoundsNoSwap(y1, y2) == <<y1, y2>>

\* lines 987-988: if y1 > y2: y1, y2 = y2, y1
BatchBounds(y1, y2) == IF y1 > y2 THEN <<y2, y1>> ELSE <<y1, y2>>

\* mutant of ProcessImage: an image in which no line is found is cropped at the
\* lines of the image before it
ProcessImageStale(line_num1, line_num2, image, prev_detected, save_ok) ==
    IF ~image.decodable
    THEN [detected |-> prev_detected,
          outcome |-> [kind |-> "error", decodable |-> FALSE, bounds |-> <<>>,
                       reported |-> -1, reads |-> <<>>, image |-> image]]
    ELSE LET det == IF MergeLinesForImage(image.raw) = <<>>
                    THEN prev_detected
                    ELSE MergeLinesForImage(image.raw)
             out(kind, bounds, reported, reads) ==
                 [detected |-> det,
                  outcome |-> [kind |-> kind, decodable |-> TRUE, bounds |-> bounds,
                               reported |-> reported, reads |-> reads,
                               image |-> image]]
         IN IF Len(det) < Max2(line_num1, line_num2)
            THEN out("skipped", <<>>, Len(det), <<>>)
            ELSE IF ~PyInRange(det, line_num1 - 1)
            THEN out("error", <<>>, -1, <<line_num1 - 1>>)
            ELSE IF ~PyInRange(det, line_num2 - 1)
            THEN out("error", <<>>, -1, <<line_num1 - 1, line_num2 - 1>>)
            ELSE LET bounds == BatchBounds(PyGet(det, line_num1 - 1),
                                           PyGet(det, line_num2 - 1))
                     reads == <<line_num1 - 1, line_num2 - 1>>
                 IN IF save_ok
                    THEN out("success", bounds, -1, reads)
                    ELSE out("error", bounds, -1, reads)

\* one iteration of the loop, lines 969-1007, for the file image; save_ok tells
\* whether cropped.save() returns
ProcessImage(line_num1, line_num2, image, prev_detected, save_ok) ==
    IF ~image.decodable
    THEN [detected |-> prev_detected,
          outcome |-> [kind |-> "error", decodable |-> FALSE, bounds |-> <<>>,
                       reported |-> -1, reads |-> <<>>, image |-> image]]
    ELSE LET det == MergeLinesForImage(image.raw)
             out(kind, bounds, reported, reads) ==
                 [detected |-> det,
                  outcome |-> [kind |-> kind, decodable |-> TRUE, bounds |-> bounds,
                               reported |-> reported, reads |-> reads,
                               image |-> image]]
         IN IF Len(det) < Max2(line_num1, line_num2)
            THEN out("skipped", <<>>, Len(det), <<>>)
            ELSE IF ~PyInRange(det, line_num1 - 1)
            THEN out("error", <<>>, -1, <<line_num1 - 1>>)
            ELSE IF ~PyInRange(det, line_num2 - 1)
            THEN out("error", <<>>, -1, <<line_num1 - 1, line_num2 - 1>>)
            ELSE LET bounds == BatchBounds(PyGet(det, line_num1 - 1),
                                           PyGet(det, line_num2 - 1))
                     reads == <<line_num1 - 1, line_num2 - 1>>
                 IN IF save_ok
                    THEN out("success", bounds, -1, reads)
                    ELSE out("error", bounds, -1, reads)

\* mutant of Tally: an image that raised is not counted
TallyNoError(c, kind) ==
    CASE kind = "success" -> [c EXCEPT !.success = c.success + 1]
      [] kind = "skipped" -> [c EXCEPT !.skip = c.skip + 1]
      [] OTHER -> c

\* success_count += 1 (line 1003), skip_count += 1 (980), error_count += 1 (1007)
Tally(c, kind) ==
    CASE kind = "success" -> [c EXCEPT !.success = c.success + 1]
      [] kind = "skipped" -> [c EXCEPT !.skip = c.skip + 1]
      [] OTHER -> [c EXCEPT !.error = c.error + 1]

\* batch_process up to the loop: a warning unless 2 ranks are set, then the folder
\* with n image files is chosen and line_num1, line_num2 are read
BatchStart(n) ==
    /\ batch_pc \in {"idle", "done"}
    /\ Len(selected_line_numbers) = 2
    /\ line_nums' = selected_line_numbers
    /\ image_files' = [k \in 1..n |-> k]
    /\ batch_i' = 0
    /\ counts' = [success |-> 0, skip |-> 0, error |-> 0]
    /\ processed' = <<>>
    /\ start_params' = params
    /\ outcome' = NoOutcome
    /\ batch_pc' = "loop"
    /\ UNCHANGED <<read_params, detected, sessionVars, traceVars, debounceVars,
                   reduceVars>>

\* batch_process with other than 2 ranks set: a warning, no change
BatchRejected ==
    /\ batch_pc \in {"idle", "done"}
    /\ Len(selected_line_numbers) # 2
    /\ UNCHANGED vars

BatchProcess ==
    \/ \E n \in 1..MaxImages : BatchStart(n)
    \/ BatchRejected

\* one iteration of the loop over image_files
BatchStep(image, save_ok) ==
    /\ batch_pc = "loop"
    /\ batch_i < Len(image_files)
    /\ LET r == ProcessImage(line_nums[1], line_nums[2], image, detected, save_ok)
       IN /\ detected' = r.detected
          /\ outcome' = r.outcome
          /\ counts' = Tally(counts, r.outcome.kind)
    /\ processed' = Append(processed, image_files[batch_i + 1])
    /\ read_params' = params
    /\ batch_i' = batch_i + 1
    /\ UNCHANGED <<batch_pc, line_nums, image_files, start_params, sessionVars,
                   traceVars, debounceVars, reduceVars>>

BatchLoop == \E image \in BatchImages, save_ok \in BOOLEAN : BatchStep(image, save_ok)

\* mutant of BatchFinish: the first image that raises ends the loop
BatchFinishOnError ==
    /\ batch_pc = "loop"
    /\ batch_i = Len(image_files) \/ counts.error > 0
    /\ batch_pc' = "done"
    /\ UNCHANGED <<line_nums, image_files, batch_i, counts, processed, start_params,
                   read_params, detected, outcome, sessionVars, traceVars,
                   debounceVars, reduceVars>>

\* the loop is over: the result message
BatchFinish ==
    /\ batch_pc = "loop"
    /\ batch_i = Len(image_files)
    /\ batch_pc' = "done"
    /\ UNCHANGED <<line_nums, image_files, batch_i, counts, processed, start_params,
                   read_params, detected, outcome, sessionVars, traceVars,
                   debounceVars, reduceVars>>

\* Load Config with no image loaded, before a run or from root.update() during one
BatchLoadConfig ==
    /\ \E config \in BatchConfigs : LoadConfigDialog(config, <<>>, FALSE)
    /\ UNCHANGED <<traceVars, debounceVars, reduceVars, batchVars>>

NextBatch ==
    \/ BatchLoadConfig
    \/ BatchProcess
    \/ BatchLoop
    \/ BatchFinish

SpecBatch == Init /\ [][NextBatch]_vars

\* a slider is moved while no image is loaded, before a run or from root.update()
\* during one: Tk writes the variable, on_param_change returns at line 487
SliderMoved(v) ==
    /\ cv_image = "None"
    /\ params' = v
    /\ UNCHANGED <<sessionVars, traceVars, reduceVars, batchVars, after_queue,
                   timer_id, n_changes, n_bursts, n_detect, used_params>>

BatchProcessShort ==
    \/ \E n \in 1..MaxShortRun : BatchStart(n)
    \/ BatchRejected

NextBatchUI ==
    \/ BatchLoadConfig
    \/ \E v \in ParamVals : SliderMoved(v)
    \/ BatchProcessShort
    \/ BatchLoop
    \/ BatchFinish

SpecBatchUI == Init /\ [][NextBatchUI]_vars

\* the folder of SpecFrame: one decodable image with three lines
FrameImages == {[decodable |-> TRUE, raw |-> <<260, 40, 120>>]}

\* Batch Process on that folder
BatchProcessOne ==
    \/ BatchStart(1)
    \/ BatchRejected

FrameLoop == \E image \in FrameImages, save_ok \in BOOLEAN : BatchStep(image, save_ok)

\* the interactive steps come before the run: SpecFrame follows a session up to a
\* Batch Process click and through the run
BeforeRun == batch_pc = "idle"

NextFrame ==
    \/ BeforeRun /\ LoadImage /\ Trace("load_image", <<>>)
    \/ BeforeRun /\ OnParamChange /\ Trace("on_param_change", <<>>)
    \/ BeforeRun /\ TimerFiresTraced
    \/ BeforeRun /\ CanvasClick /\ Trace("on_canvas_click", <<>>)
    \/ BeforeRun /\ ClearSelection /\ Trace("clear_selection", <<>>)
    \/ BatchProcessOne
    \/ FrameLoop
    \/ BatchFinish

SpecFrame == Init /\ [][NextFrame]_vars

\* the for loop of lines 963-1007 is sequential code: root.update() returns, every
\* iteration ends (each failure is caught at line 1005), and the loop leaves after
\* the last file
SpecBatchFair == SpecBatch /\ WF_vars(BatchLoop) /\ WF_vars(BatchFinish)

---------------------------------------------------------------------------
(* The reduction alone *)

RawBags == UNION {[1..n -> YRaw] : n \in 0..MaxRaw}

InitReduce ==
    /\ SessionInit
    /\ TraceIdle
    /\ DebounceIdle
    /\ BatchIdle
    /\ hough_lines = <<>>
    /\ horizontal_lines \in RawBags
    /\ merged_lines = <<>>
    /\ reduce_pc = "start"

\* lines 536-541 of detect_lines on horizontal_lines
ReduceDetectLines ==
    /\ reduce_pc = "start"
    /\ merged_lines' = MergeLines(horizontal_lines)
    /\ reduce_pc' = "detect_lines"
    /\ UNCHANGED <<hough_lines, horizontal_lines, sessionVars, traceVars,
                   debounceVars, batchVars>>

\* lines 607-611 of detect_lines_for_image on horizontal_lines
ReduceDetectLinesForImage ==
    /\ reduce_pc = "start"
    /\ merged_lines' = MergeLinesForImage(horizontal_lines)
    /\ reduce_pc' = "detect_lines_for_image"
    /\ UNCHANGED <<hough_lines, horizontal_lines, sessionVars, traceVars,
                   debounceVars, batchVars>>

NextReduce ==
    \/ ReduceDetectLines
    \/ ReduceDetectLinesForImage

SpecReduce == InitReduce /\ [][NextReduce]_vars

---------------------------------------------------------------------------
(* LineExtractor: the filter of detect_lines lines 527-534 and of            *)
(* detect_lines_for_image lines 600-605                                      *)

\* angle < 5 or angle > 175 for angle = abs(arctan2(y2 - y1, x2 - x1)) in degrees:
\* abs(dy) < tan(5 deg) * abs(dx), with tan(5 deg) = 0.0874887 cut to 5 digits; a
\* segment with dy = 0 has angle 0 or 180
NearHorizontal(x1, y1, x2, y2) ==
    \/ y2 = y1
    \/ Abs(y2 - y1) * TanScale < Tan5 * Abs(x2 - x1)

\* y_avg = (y1 + y2) // 2
YAvg(y1, y2) == (y1 + y2) \div 2

\* the loop over lines: y_avg of each nearly horizontal segment, in order
RECURSIVE HorizontalLines(_)
HorizontalLines(segs) ==
    IF segs = <<>> THEN <<>>
    ELSE LET line == Head(segs)
         IN IF NearHorizontal(line[1], line[2], line[3], line[4])
            THEN <<YAvg(line[2], line[4])>> \o HorizontalLines(Tail(segs))
            ELSE HorizontalLines(Tail(segs))

\* segments HoughLinesP returns: either direction, flat, sloped by 1, 3 or 4 rows
\* over 40 columns, or vertical
Segments ==
    {<<x1, y1, x2, y2>> : x1 \in SegXs, y1 \in SegYs, x2 \in SegXs, y2 \in SegYs}

SegmentBags == UNION {[1..n -> Segments] : n \in 0..MaxSegs}

InitExtract ==
    /\ SessionInit
    /\ TraceIdle
    /\ DebounceIdle
    /\ BatchIdle
    /\ hough_lines \in SegmentBags
    /\ horizontal_lines = <<>>
    /\ merged_lines = <<>>
    /\ reduce_pc = "extract"

\* lines 527-534 of detect_lines on hough_lines
ExtractDetectLines ==
    /\ reduce_pc = "extract"
    /\ horizontal_lines' = HorizontalLines(hough_lines)
    /\ reduce_pc' = "extracted"
    /\ UNCHANGED <<hough_lines, merged_lines, sessionVars, traceVars, debounceVars,
                   batchVars>>

\* lines 600-605 of detect_lines_for_image on hough_lines
ExtractForImage ==
    /\ reduce_pc = "extract"
    /\ horizontal_lines' = HorizontalLines(hough_lines)
    /\ reduce_pc' = "extracted_for_image"
    /\ UNCHANGED <<hough_lines, merged_lines, sessionVars, traceVars, debounceVars,
                   batchVars>>

NextExtract ==
    \/ ExtractDetectLines
    \/ ExtractForImage

SpecExtract == InitExtract /\ [][NextExtract]_vars

---------------------------------------------------------------------------
(* Properties *)

\* strictly ascending, adjacent entries more than T_merge apart
Canonical(lines) ==
    \A k \in 1..(Len(lines) - 1) : lines[k + 1] - lines[k] > T_merge

\* C1: the canonical sequence held by the session is strictly ascending and any two
\* adjacent entries differ by more than T_merge = 10, in every reachable state; so
\* is what either reduction returns for a bag of raw y-values.
C1_DetectedLinesCanonical ==
    /\ Canonical(detected_lines)
    /\ \A raw \in RawInputs :
           Canonical(MergeLines(raw)) /\ Canonical(MergeLinesForImage(raw))

C1_Witness == cv_image = "img" /\ Len(detected_lines) = 3

\* r is the greedy reduction of the set S: it starts at the smallest value, each
\* next entry is the smallest value more than T_merge above the entry before it,
\* and no value is more than T_merge above the last entry
IsGreedyReduction(S, r) ==
    /\ Range(r) \subseteq S
    /\ (S = {}) = (r = <<>>)
    /\ r # <<>> => r[1] = SetMin(S)
    /\ \A k \in 1..(Len(r) - 1) :
           LET above == {v \in S : v > r[k] + T_merge}
           IN above # {} /\ r[k + 1] = SetMin(above)
    /\ r # <<>> => {v \in S : v > r[Len(r)] + T_merge} = {}

\* C2: the reduction of a raw bag is the greedy reference (sort, drop repeats, keep a
\* value only if it is more than 10 above the last kept one); {100, 105, 108, 200}
\* gives [100, 200], the empty bag gives [], one raw value gives that value alone.
C2_ReductionIsGreedy ==
    reduce_pc # "start" =>
        /\ IsGreedyReduction(Range(horizontal_lines), merged_lines)
        /\ Range(horizontal_lines) = {100, 105, 108, 200} => merged_lines = <<100, 200>>
        /\ horizontal_lines = <<>> => merged_lines = <<>>
        /\ Len(horizontal_lines) = 1 => merged_lines = horizontal_lines

C2_Witness ==
    /\ reduce_pc = "detect_lines"
    /\ horizontal_lines = <<200, 105, 108, 100>>
    /\ merged_lines = <<100, 200>>

\* distance from y to the nearest of lines
Dist(lines, k, y) == Abs(lines[k] - y)

HasWithinCutoff(lines, y) == \E k \in 1..Len(lines) : Dist(lines, k, y) < T_match

IsNearest(lines, j, y) ==
    /\ j \in 1..Len(lines)
    /\ \A k \in 1..Len(lines) : Dist(lines, j, y) <= Dist(lines, k, y)

\* the old y-values of the remap that ran in the last step
OldY == old_selected_y[1]

\* C3: after a re-detection, for each old selected y-value with a new line within
\* the cutoff, the index the remap chose is a nearest new line of that y-value, and
\* it is a member of the new Selection.
C3_RemapChoosesNearest ==
    last_op = "detect_lines" =>
        \A k \in 1..Len(OldY) :
            HasWithinCutoff(detected_lines, OldY[k]) =>
                LET best_idx == BestIdx(detected_lines, OldY[k])
                IN /\ IsNearest(detected_lines, best_idx + 1, OldY[k])
                   /\ PyIn(best_idx, selected_lines)

C3_Witness ==
    /\ last_op = "detect_lines"
    /\ old_selected_y = << <<69>> >>
    /\ detected_lines = <<50, 70>>
    /\ selected_lines = <<1>>

\* old y-values that have a new line within the cutoff
Matchable(lines, old_ys) ==
    {k \in 1..Len(old_ys) : HasWithinCutoff(lines, old_ys[k])}

\* C4: after a re-detection, an old y-value whose nearest new line is 19 away is
\* matched (50 -> 69) and one whose nearest new line is 21 away is dropped
\* (50 -> 71); the new Selection has no more members than old y-values with a new
\* line within the cutoff, and every member is within the cutoff of an old y-value.
C4_RemapCutoff ==
    last_op = "detect_lines" =>
        /\ Len(selected_lines) <= Cardinality(Matchable(detected_lines, OldY))
        /\ Len(selected_lines) <= Len(OldY)
        /\ \A m \in 1..Len(selected_lines) :
               /\ selected_lines[m] \in 0..(Len(detected_lines) - 1)
               /\ \E k \in 1..Len(OldY) :
                      Dist(detected_lines, selected_lines[m] + 1, OldY[k]) < T_match
        /\ OldY = <<50>> /\ detected_lines = <<69>> => selected_lines = <<0>>
        /\ OldY = <<50>> /\ detected_lines = <<71>> => selected_lines = <<>>

C4_Witness ==
    /\ last_op = "detect_lines"
    /\ old_selected_y = << <<50>> >>
    /\ detected_lines = <<71>>
    /\ selected_lines = <<>>

NoRepeat(list) ==
    \A a, b \in 1..Len(list) : a # b => list[a] # list[b]

\* C5: the Selection a re-detection leaves has no repeated index; two old y-values
\* that resolve to the same new index leave that index once.
C5_RemapNoRepeat ==
    last_op = "detect_lines" =>
        /\ NoRepeat(selected_lines)
        /\ \A a, b \in 1..Len(OldY) :
               LET ia == BestIdx(detected_lines, OldY[a])
                   ib == BestIdx(detected_lines, OldY[b])
               IN a < b /\ ia >= 0 /\ ia = ib => selected_lines = <<ia>>

C5_Witness ==
    /\ last_op = "detect_lines"
    /\ old_selected_y = << <<31, 50>> >>
    /\ detected_lines = <<31>>
    /\ selected_lines = <<0>>

\* the ascending pair of (index + 1) of a 2-member selection
AscendingRanks(sel) ==
    IF sel[1] <= sel[2] THEN <<sel[1] + 1, sel[2] + 1>> ELSE <<sel[2] + 1, sel[1] + 1>>

\* C6: after a canvas click, Use Selected or a re-detection that leaves exactly 2
\* selected lines, selected_line_numbers is the ascending pair of (index + 1).
C6_OrdinalsFollowSelection ==
    /\ last_op \in {"on_canvas_click", "use_selected_lines", "detect_lines"}
    /\ Len(selected_lines) = 2
    => selected_line_numbers = AscendingRanks(selected_lines)

\* C7: the Selection never holds more than 2 members.
C7_SelectionAtMostTwo == Len(selected_lines) <= 2

C7_Witness == Len(detected_lines) = 3 /\ Len(selected_lines) = 2

\* C8: whenever selected_line_numbers has 2 entries, they are distinct integers >= 1.
C8_RanksDistinctPositive ==
    Len(selected_line_numbers) = 2 =>
        /\ selected_line_numbers[1] # selected_line_numbers[2]
        /\ selected_line_numbers[1] >= 1
        /\ selected_line_numbers[2] >= 1

\* C9: a decodable batch image is SKIPPED, with its line count in the reason,
\* exactly when it has fewer than max(rank1, rank2) canonical lines, and no index
\* outside the canonical sequence is read; ranks (1,3) on [10, 90] give SKIPPED.
C9_SkipIffTooFewLines ==
    outcome.kind # "none" /\ outcome.decodable =>
        /\ (outcome.kind = "skipped") = (Len(detected) < Max2(line_nums[1], line_nums[2]))
        /\ outcome.kind = "skipped" => outcome.reported = Len(detected)
        /\ \A k \in 1..Len(outcome.reads) : PyInRange(detected, outcome.reads[k])
        /\ line_nums = <<1, 3>> /\ detected = <<10, 90>> => outcome.kind = "skipped"

\* C10: the crop rows of a batch image are the y-values at positions rank1-1 and
\* rank2-1 of its canonical sequence in ascending order, whatever the order of the
\* ranks; (1,3) on [40, 120, 260] gives (40, 260). The preview orders the y-values
\* of its two selected lines in the same way.
C10_BoundsAscending ==
    /\ outcome.kind = "success" =>
           LET ya == PyGet(detected, line_nums[1] - 1)
               yb == PyGet(detected, line_nums[2] - 1)
           IN /\ outcome.bounds[1] <= outcome.bounds[2]
              /\ {outcome.bounds[1], outcome.bounds[2]} = {ya, yb}
              /\ Len(detected) >= Max2(line_nums[1], line_nums[2])
              /\ detected = <<40, 120, 260>> /\ Range(line_nums) = {1, 3}
                     => outcome.bounds = <<40, 260>>
    /\ \A lines \in MergedInputs :
           \A a, b \in 0..(Len(lines) - 1) :
               LET p == PreviewBounds(lines, <<a, b>>)
               IN p[1] <= p[2] /\ {p[1], p[2]} = {lines[a + 1], lines[b + 1]}

C10_Witness ==
    /\ outcome.kind = "success"
    /\ line_nums = <<3, 1>>
    /\ detected = <<40, 120, 260>>
    /\ outcome.bounds = <<40, 260>>

Sum(c) == c.success + c.skip + c.error

\* C11: a batch run over N images ends, having gone through every image once in
\* list order, with success + skipped + errored = N; an image that is skipped or
\* raises does not end the run (3 good, 1 skipped, 1 undecodable report 3/1/1).
C11_BatchCompletes ==
    /\ [](batch_pc \in {"loop", "done"} =>
              /\ batch_i <= Len(image_files)
              /\ processed = SubSeq(image_files, 1, batch_i)
              /\ Sum(counts) = batch_i)
    /\ [](batch_pc = "done" =>
              /\ processed = image_files
              /\ Sum(counts) = Len(image_files))
    /\ (batch_pc = "loop") ~> (batch_pc = "done")

C11_Witness ==
    /\ batch_pc = "done"
    /\ Len(image_files) = 5
    /\ processed = <<1, 2, 3, 4, 5>>
    /\ counts = [success |-> 3, skip |-> 1, error |-> 1]

\* the loop body ran in this step
IterationRan == batch_pc = "loop" /\ batch_i' = batch_i + 1

\* C12: an iteration of the batch loop adds 1 to exactly one of the three counters;
\* an undecodable image adds to the error counter, a decodable image with fewer
\* lines than max(rank1, rank2) adds to the skip counter.
C12_OneCounterPerImage ==
    [][IterationRan =>
           /\ \E f \in {"success", "skip", "error"} :
                  counts' = [counts EXCEPT ![f] = counts[f] + 1]
           /\ ~outcome'.decodable =>
                  counts'.error = counts.error + 1 /\ counts'.skip = counts.skip
           /\ outcome'.decodable /\ Len(detected') < Max2(line_nums[1], line_nums[2]) =>
                  counts'.skip = counts.skip + 1 /\ counts'.error = counts.error]_vars

C12_Witness ==
    /\ batch_pc = "loop"
    /\ counts = [success |-> 0, skip |-> 1, error |-> 1]
    /\ outcome.kind = "error"
    /\ ~outcome.decodable

\* C13: what an iteration of the batch loop produces for an image is what the same
\* image produces as the first image of a run with the same ranks, whatever was
\* processed before it, and the iteration leaves the session's canonical lines,
\* Selection and OrdinalSelection as they are.
C13_OutcomeOfOwnImage ==
    [][IterationRan =>
           /\ UNCHANGED <<detected_lines, selected_lines, selected_line_numbers>>
           /\ \E save_ok \in BOOLEAN :
                  outcome' = ProcessImage(line_nums[1], line_nums[2], outcome'.image,
                                          <<>>, save_ok).outcome
           /\ outcome'.decodable =>
                  detected' = MergeLinesForImage(outcome'.image.raw)]_vars

C13_Witness ==
    /\ batch_i = 2
    /\ line_nums = <<1, 3>>
    /\ counts = [success |-> 1, skip |-> 1, error |-> 0]
    /\ detected = <<>>
    /\ outcome.kind = "skipped"

\* C14: with an image loaded at most one re-detection callback is pending, and it
\* is the one scheduled last; a change made while one is pending replaces it, so each
\* burst of changes leads to one detection, which is eventually run and reads the
\* slider value of the last change.
C14_Debounce ==
    /\ [](/\ Cardinality(after_queue) <= 1
          /\ after_queue # {} => after_queue = {timer_id[1]}
          /\ (after_queue # {}) = (update_timer = "pending")
          /\ n_detect + Cardinality(after_queue) = n_bursts)
    /\ [][n_detect' = n_detect + 1 =>
              /\ after_queue' = {}
              /\ used_params'[n_detect'] = params]_vars
    /\ (after_queue # {}) ~> (after_queue = {})

C14_Witness ==
    /\ cv_image = "img"
    /\ n_changes = 3
    /\ n_bursts = 1
    /\ n_detect = 1
    /\ after_queue = {}
    /\ timer_id = <<3>>
    /\ params = 2
    /\ used_params = <<2>>

\* C15: a detect_lines call in which the extraction raises leaves detected_lines,
\* selected_lines and selected_line_numbers as they were; the handler returns.
C15_FailedDetectionKeepsState ==
    [][last_op' = "detect_lines_failed" =>
           UNCHANGED <<detected_lines, selected_lines, selected_line_numbers>>]_vars

C15_Witness ==
    /\ last_op = "detect_lines_failed"
    /\ cv_image = "img"
    /\ detected_lines = <<31, 69>>
    /\ selected_lines = <<1, 0>>
    /\ selected_line_numbers = <<1, 2>>

\* sel without the index i
Without(sel, i) == SelectSeq(sel, LAMBDA x : x # i)

\* C16: a canvas click that resolves to line i removes i from the Selection if it
\* is selected; else appends i if fewer than 2 lines are selected; else drops the
\* oldest member and appends i. The other member is kept.
C16_ClickToggles ==
    [][last_op' = "on_canvas_click" =>
           \E img_y \in ClickYs :
               LET c == ClickScan(detected_lines, img_y, 1, -1, <<>>)
                   i == c[1]
               IN /\ i >= 0 /\ c[2] # <<>> /\ c[2][1] < T_click
                  /\ selected_lines' =
                         IF PyIn(i, selected_lines) THEN Without(selected_lines, i)
                         ELSE IF Len(selected_lines) < 2 THEN Append(selected_lines, i)
                         ELSE <<selected_lines[Len(selected_lines)], i>>]_vars

\* C17: Save Config with other than 2 lines selected only warns: the Selection and
\* the OrdinalSelection stay as they are; with 2 lines selected it sets the
\* OrdinalSelection to the ascending pair of (index + 1) and keeps the Selection.
C17_SaveConfigNeedsTwo ==
    [][last_op' = "save_config" =>
           /\ selected_lines' = selected_lines
           /\ selected_line_numbers' =
                  IF Len(selected_lines) = 2 THEN AscendingRanks(selected_lines)
                  ELSE selected_line_numbers]_vars

C17_Witness ==
    /\ last_op = "save_config"
    /\ selected_lines = <<0>>
    /\ selected_line_numbers = <<1, 2>>

\* the y-values of the members of sel that are positions of lines, in order
ValidOldY(lines, sel) ==
    LET v == SelectSeq(sel, LAMBDA i : i \in 0..(Len(lines) - 1))
    IN [k \in 1..Len(v) |-> lines[v[k] + 1]]

\* C18: a re-detection resolves each selected index that is a position of the old
\* canonical sequence to its y-value in that sequence, skips each index that is not,
\* and remaps the resolved y-values alone.
C18_StaleIndexSkipped ==
    [][last_op' = "detect_lines" =>
           /\ old_selected_y' = <<ValidOldY(detected_lines, selected_lines)>>
           /\ selected_lines' =
                  Remap(detected_lines', ValidOldY(detected_lines, selected_lines))]_vars

\* C19: the reduction of a sequence that is already canonical is that sequence, so
\* the reduction of the output of a reduction is that output.
C19_ReductionIdempotent ==
    reduce_pc \in {"detect_lines", "detect_lines_for_image"} =>
        /\ Canonical(horizontal_lines) => merged_lines = horizontal_lines
        /\ MergeLines(merged_lines) = merged_lines
        /\ MergeLinesForImage(merged_lines) = merged_lines

C19_Witness ==
    /\ reduce_pc = "detect_lines"
    /\ horizontal_lines = <<90, 105, 121, 200>>
    /\ merged_lines = <<90, 105, 121, 200>>

\* the nearly horizontal segments among segs, in order
Horizontal(segs) ==
    SelectSeq(segs, LAMBDA line : NearHorizontal(line[1], line[2], line[3], line[4]))

\* the mean of y1 and y2 rounded to the nearest integer, halves up
RoundedMean(y1, y2) == (y1 + y2 + 1) \div 2

\* C20: the raw position reported for each nearly horizontal segment with endpoint
\* rows y1 and y2 is the rounded mean of y1 and y2.
C20_RawLineIsRoundedMean ==
    reduce_pc \in {"extracted", "extracted_for_image"} =>
        LET hs == Horizontal(hough_lines)
        IN /\ Len(horizontal_lines) = Len(hs)
           /\ \A k \in 1..Len(hs) :
                  horizontal_lines[k] = RoundedMean(hs[k][2], hs[k][4])

\* C21: every iteration of a batch run uses the rank pair and the detector
\* parameters that were in effect when the run started, whatever is loaded or moved
\* between two iterations.
C21_RunUsesStartSettings ==
    [][/\ batch_pc = "loop" /\ batch_pc' = "loop" => line_nums' = line_nums
       /\ IterationRan =>
              /\ \E save_ok \in BOOLEAN :
                     outcome' = ProcessImage(line_nums[1], line_nums[2], outcome'.image,
                                             <<>>, save_ok).outcome
              /\ read_params' = start_params]_vars

\* C22: for the same bag of raw candidates the reduction of detect_lines_for_image
\* and the reduction of detect_lines return the same canonical sequence.
C22_ReductionsAgree ==
    /\ reduce_pc = "detect_lines" => merged_lines = MergeLinesForImage(horizontal_lines)
    /\ reduce_pc = "detect_lines_for_image" => merged_lines = MergeLines(horizontal_lines)

C22_Witness ==
    /\ reduce_pc = "detect_lines_for_image"
    /\ horizontal_lines = <<121, 90, 100, 111>>
    /\ merged_lines = <<90, 111>>

\* C23: the reduction invents no value: every canonical line is a raw value, the
\* smallest raw value is the first canonical line, and every discarded raw value v
\* has a kept value k with 0 <= v - k <= 10.
C23_ReductionInventsNothing ==
    reduce_pc # "start" =>
        LET raw  == Range(horizontal_lines)
            kept == Range(merged_lines)
        IN /\ kept \subseteq raw
           /\ raw # {} => merged_lines # <<>> /\ merged_lines[1] = SetMin(raw)
           /\ \A v \in raw \ kept : \E k \in kept : 0 <= v - k /\ v - k <= T_merge

C23_Witness ==
    /\ reduce_pc = "detect_lines"
    /\ horizontal_lines = <<110, 100, 111, 121>>
    /\ merged_lines = <<100, 111>>

\* C24: after load_image has decoded a file, the Selection is [rank1-1, rank2-1]
\* when two ranks are recorded and the new image has at least max(rank1, rank2)
\* lines, and empty otherwise; the Selection of the previous image is not carried
\* over by proximity.
C24_LoadImageResetsSelection ==
    [][last_op' = "load_image" /\ cv_image' = "img" =>
           selected_lines' =
               IF /\ Len(selected_line_numbers) = 2
                  /\ Len(detected_lines') >= Max2(selected_line_numbers[1],
                                                  selected_line_numbers[2])
               THEN <<selected_line_numbers[1] - 1, selected_line_numbers[2] - 1>>
               ELSE <<>>]_vars

C24_Witness ==
    /\ last_op = "load_image"
    /\ cv_image = "img"
    /\ selected_line_numbers = <<2, 1>>
    /\ detected_lines = <<31, 50, 71>>
    /\ selected_lines = <<1, 0>>

\* the members of sel are distinct indices of lines
DistinctValid(lines, sel) ==
    /\ NoRepeat(sel)
    /\ \A k \in 1..Len(sel) : 0 <= sel[k] /\ sel[k] < Len(lines)

\* C25: a re-detection that yields the same canonical sequence leaves a Selection
\* of distinct valid indices as it was, members and insertion order alike, so the
\* member a third click would evict is the same.
C25_RemapIdentity ==
    [][/\ last_op' = "detect_lines"
       /\ detected_lines' = detected_lines
       /\ DistinctValid(detected_lines, selected_lines)
       => selected_lines' = selected_lines]_vars

C25_Witness ==
    /\ last_op = "detect_lines"
    /\ detected_lines = <<31, 50, 69>>
    /\ old_selected_y = << <<69, 31>> >>
    /\ selected_lines = <<2, 0>>

\* distances from y to each of lines
Dists(lines, y) == {Dist(lines, j, y) : j \in 1..Len(lines)}

\* old y-values whose nearest new line is at most T_match - 1 away
Within19(lines, old_ys) ==
    {k \in 1..Len(old_ys) :
         Dists(lines, old_ys[k]) # {} /\ SetMin(Dists(lines, old_ys[k])) <= T_match - 1}

\* C26: the cutoff of the remap is strict: an old y-value whose nearest new line is
\* exactly 20 away is dropped (50 -> 70), and an old y-value yields a member only
\* when its nearest new line is at most 19 away (50 -> 31).
C26_CutoffStrict ==
    last_op = "detect_lines" =>
        /\ Len(selected_lines) <= Cardinality(Within19(detected_lines, OldY))
        /\ \A k \in Within19(detected_lines, OldY) :
               \E m \in 1..Len(selected_lines) :
                   /\ PyInRange(detected_lines, selected_lines[m])
                   /\ Abs(PyGet(detected_lines, selected_lines[m]) - OldY[k])
                          = SetMin(Dists(detected_lines, OldY[k]))
        /\ (\A k \in 1..Len(OldY) :
                Dists(detected_lines, OldY[k]) # {}
                /\ SetMin(Dists(detected_lines, OldY[k])) = T_match)
               => selected_lines = <<>>
        /\ OldY = <<50>> /\ detected_lines = <<31>> => selected_lines = <<0>>

C26_Witness ==
    /\ last_op = "detect_lines"
    /\ old_selected_y = << <<50>> >>
    /\ detected_lines = <<70>>
    /\ selected_lines = <<>>

\* new lines i < j are both nearest to y, at the same distance within the cutoff
TiedNearest(lines, i, j, y) ==
    /\ i < j
    /\ Dist(lines, i, y) = Dist(lines, j, y)
    /\ Dist(lines, i, y) < T_match
    /\ IsNearest(lines, i, y)

\* C27: when two new lines are equidistant from an old selected y-value and within
\* the cutoff, the remap takes the one with the lower index: old 50 with new lines 35
\* and 65 gives index 0, and so does old 50 with new lines 31 and 69.
C27_TieTakesLowerIndex ==
    /\ BestIdx(<<35, 65>>, 50) = 0
    /\ last_op = "detect_lines" =>
           \A k \in 1..Len(OldY) : \A i, j \in 1..Len(detected_lines) :
               TiedNearest(detected_lines, i, j, OldY[k]) =>
                   /\ PyIn(i - 1, selected_lines)
                   /\ detected_lines[i] < detected_lines[j]
                   /\ Len(OldY) = 1 => selected_lines = <<i - 1>>

C27_Witness ==
    /\ last_op = "detect_lines"
    /\ old_selected_y = << <<50>> >>
    /\ detected_lines = <<31, 69>>
    /\ selected_lines = <<0>>

\* C28: in every reachable state every member i of the Selection is a position of
\* the current canonical sequence: 0 <= i < len(detected_lines).
C28_SelectionInRange ==
    \A k \in 1..Len(selected_lines) :
        0 <= selected_lines[k] /\ selected_lines[k] < Len(detected_lines)

\* C29: Clear Selection, a click that removes a selected line and a remap that
\* drops a member bring the Selection below 2 members and leave the recorded ranks
\* as they are, so a batch run started afterwards is accepted and runs with the
\* last recorded rank pair.
C29_RanksOutliveSelection ==
    [][/\ (/\ last_op' \in {"clear_selection", "on_canvas_click", "detect_lines"}
           /\ Len(selected_lines') < Len(selected_lines)
           /\ Len(selected_lines') < 2)
          => selected_line_numbers' = selected_line_numbers
       /\ (batch_pc # "loop" /\ batch_pc' = "loop")
          => (Len(selected_line_numbers) = 2 /\ line_nums' = selected_line_numbers)
      ]_vars

C29_Witness ==
    /\ last_op = "clear_selection"
    /\ selected_lines = <<>>
    /\ selected_line_numbers = <<1, 3>>
    /\ batch_pc = "done"
    /\ line_nums = <<1, 3>>
    /\ outcome.kind = "success"

\* C30: a load_image call whose file does not decode leaves the canonical lines,
\* the Selection and the recorded ranks of the previous image as they were, while
\* cv_image is None and image_path is the new path; from then on no parameter
\* change schedules a re-detection until a load_image call decodes its file.
C30_FailedLoadKeepsLines ==
    [][/\ (last_op' = "load_image" /\ cv_image' = "None")
          => /\ UNCHANGED <<detected_lines, selected_lines, selected_line_numbers>>
             /\ image_path' \in Paths
       /\ cv_image = "None"
          => /\ last_op' # "on_param_change"
             /\ update_timer # "pending" => update_timer' # "pending"
             /\ cv_image' # "None" => last_op' = "load_image"
      ]_vars

C30_Witness ==
    /\ last_op = "load_image"
    /\ cv_image = "None"
    /\ image_path = "b.png"
    /\ detected_lines = <<31, 50>>
    /\ selected_lines = <<1, 0>>
    /\ selected_line_numbers = <<1, 2>>
    /\ update_timer = "expired"

=============================================================================
